---------------------------- MODULE Spec2Model ----------------------------
(***************************************************************************)
(* A model of findshape.py: the Shape class (point extraction, centering,  *)
(* resizing, orthogonal Procrustes alignment, similarity test) and the     *)
(* FindShape effect (template setup, the scan over the document's          *)
(* descendants with its forward and reversed pass, placement of copies).   *)
(*                                                                         *)
(* Numbers.  numpy's floats are modelled as exact reals; rounding is not   *)
(* modelled.  Coordinates are integers, in a unit fine enough that the     *)
(* centroid of every shape is a grid point.  The only irrationals the code *)
(* produces are common factors: the scale factor (a ratio of norms) and    *)
(* the normalisation of the Procrustes solution.  So a point matrix (2 x n *)
(* in the code) is a record [m, num, den] standing for sqrt(num / den) * m *)
(* with m a sequence of integer columns <<x, y>>, and a Transform is a     *)
(* record [lin, num, den, ts, tr] standing for                             *)
(*             x |-> sqrt(num / den) * (lin x + ts) + tr.                  *)
(***************************************************************************)
EXTENDS Integers, Sequences, FiniteSets, TLC

---------------------------------------------------------------------------
(* Arithmetic *)

Abs(x) == IF x < 0 THEN -x ELSE x

RECURSIVE Gcd(_, _)
Gcd(a, b) == IF b = 0 THEN a ELSE Gcd(b, a % b)

\* the fraction n / d (n, d > 0) in lowest terms, and the product of two
Frac(n, d) == <<n \div Gcd(n, d), d \div Gcd(n, d)>>
FracMul(p, q) ==
    <<(p[1] \div Gcd(p[1], q[2])) * (q[1] \div Gcd(q[1], p[2])),
      (p[2] \div Gcd(q[1], p[2])) * (q[2] \div Gcd(p[1], q[2]))>>

\* x <= y * sqrt(w), for integers x, y and w >= 0
SquareLe(p, q, w) == p * p <= q * q * w
SquareGe(p, q, w) == q * q * w <= p * p
SurdLe(x, y, w) ==
    IF y >= 0
    THEN x <= 0 \/ SquareLe(x \div Gcd(Abs(x), Abs(y)), y \div Gcd(Abs(x), Abs(y)), w)
    ELSE x <= 0 /\ SquareGe(x \div Gcd(Abs(x), Abs(y)), y \div Gcd(Abs(x), Abs(y)), w)

\* sqrt(num / den) * u = v, for integers u and v
SurdEq(num, den, u, v) ==
    /\ (u > 0) = (v > 0)
    /\ (u < 0) = (v < 0)
    /\ num * u * u = den * v * v

---------------------------------------------------------------------------
(* Vectors <<x, y>> and 2 x 2 matrices <<<<m00, m01>>, <<m10, m11>>>>      *)

VAdd(u, v) == <<u[1] + v[1], u[2] + v[2]>>
VSub(u, v) == <<u[1] - v[1], u[2] - v[2]>>
MApply(M, v) == <<M[1][1] * v[1] + M[1][2] * v[2], M[2][1] * v[1] + M[2][2] * v[2]>>
MTranspose(M) == <<<<M[1][1], M[2][1]>>, <<M[1][2], M[2][2]>>>>
MMul(A, B) ==
    <<<<A[1][1] * B[1][1] + A[1][2] * B[2][1], A[1][1] * B[1][2] + A[1][2] * B[2][2]>>,
      <<A[2][1] * B[1][1] + A[2][2] * B[2][1], A[2][1] * B[1][2] + A[2][2] * B[2][2]>>>>
Identity == <<<<1, 0>>, <<0, 1>>>>

RECURSIVE SumSeq(_)
SumSeq(s) == IF s = <<>> THEN 0 ELSE Head(s) + SumSeq(Tail(s))

RECURSIVE GcdSeq(_)
GcdSeq(s) == IF s = <<>> THEN 0 ELSE Gcd(Abs(Head(s)), GcdSeq(Tail(s)))

\* the entries of a point matrix, and the sum of their squares
Entries(m) == [k \in 1..(2 * Len(m)) |-> m[(k + 1) \div 2][2 - (k % 2)]]
NormSq(m) == SumSeq([j \in 1..Len(m) |-> m[j][1] * m[j][1] + m[j][2] * m[j][2]])

\* B @ A.T
CrossCov(B, A) ==
    <<<<SumSeq([j \in 1..Len(A) |-> B[j][1] * A[j][1]]),
        SumSeq([j \in 1..Len(A) |-> B[j][1] * A[j][2]])>>,
      <<SumSeq([j \in 1..Len(A) |-> B[j][2] * A[j][1]]),
        SumSeq([j \in 1..Len(A) |-> B[j][2] * A[j][2]])>>>>

Reverse(s) == [j \in 1..Len(s) |-> s[Len(s) + 1 - j]]

\* the canonical form of sqrt(num / den) * m: m primitive, num / den in
\* lowest terms (and 1 for the zero matrix); g is the gcd of m's entries
CanonBy(m, num, den, g) ==
    IF g = 0 THEN [m |-> m, num |-> 1, den |-> 1]
    ELSE [m   |-> [j \in 1..Len(m) |-> <<m[j][1] \div g, m[j][2] \div g>>],
          num |-> FracMul(Frac(num, den), <<g * g, 1>>)[1],
          den |-> FracMul(Frac(num, den), <<g * g, 1>>)[2]]
Canon(m, num, den) == CanonBy(m, num, den, GcdSeq(Entries(m)))

---------------------------------------------------------------------------
(* inkex.Transform: x |-> sqrt(num / den) * (lin x + ts) + tr, with        *)
(* ts = <<0, 0>> whenever num / den = 1                                    *)

TransformOf(f, lin, ts, tr) ==
    IF f = <<1, 1>>
    THEN [lin |-> lin, num |-> 1, den |-> 1, ts |-> <<0, 0>>, tr |-> VAdd(ts, tr)]
    ELSE [lin |-> lin, num |-> f[1], den |-> f[2], ts |-> ts, tr |-> tr]

IdentityTransform == TransformOf(<<1, 1>>, Identity, <<0, 0>>, <<0, 0>>)

\* A @ B: B is applied first.  The code composes a transform only with one
\* that is rational, or with a linear one.
Compose(A, B) ==
    CASE B.num = B.den ->
           TransformOf(<<A.num, A.den>>, MMul(A.lin, B.lin),
                       VAdd(MApply(A.lin, B.tr), A.ts), A.tr)
      [] A.num = A.den ->
           TransformOf(<<B.num, B.den>>, MMul(A.lin, B.lin),
                       MApply(A.lin, B.ts), VAdd(MApply(A.lin, B.tr), A.tr))
      [] VAdd(MApply(A.lin, B.tr), A.ts) = <<0, 0>> ->
           TransformOf(FracMul(<<A.num, A.den>>, <<B.num, B.den>>),
                       MMul(A.lin, B.lin), MApply(A.lin, B.ts), A.tr)

\* Transform.apply_to_point, for a rational transform
apply_to_point(T, p) == VAdd(MApply(T.lin, p), T.tr)

\* T maps p onto q
MapsTo(T, p, q) ==
    /\ SurdEq(T.num, T.den, MApply(T.lin, p)[1] + T.ts[1], q[1] - T.tr[1])
    /\ SurdEq(T.num, T.den, MApply(T.lin, p)[2] + T.ts[2], q[2] - T.tr[2])

---------------------------------------------------------------------------
(* class Shape.  An object (a document element) is a record with the       *)
(* fields id, kind, parent, path (its superpath: a sequence of subpaths,   *)
(* each a sequence of segments <<handle, point, handle>>) and transform    *)
(* (its composed transform).  A method that, in Python, mutates an         *)
(* argument in place returns here the new value of each Shape it was       *)
(* handed: self, shape (the other Shape) and ret (the returned Transform). *)

NoShape == [object |-> 0]

\* np.mean over one row of the point matrix
Mean(row) == CASE SumSeq(row) % Len(row) = 0 -> SumSeq(row) \div Len(row)

\* lines 49-53: the points of the one subpath, in the global frame
PathPoints(path, render, include_handles) ==
    IF include_handles
    THEN [k \in 1..(3 * Len(path)) |->
            apply_to_point(render, path[(k + 2) \div 3][((k + 2) % 3) + 1])]
    ELSE [k \in 1..Len(path) |-> apply_to_point(render, path[k][2])]

\* lines 56-59: the point matrix and its centroid
ShapeOf(object, points) ==
    [object           |-> object.id,
     path             |-> object.path[1],
     render_transform |-> object.transform,
     points           |-> [m |-> points, num |-> 1, den |-> 1],
     centroid         |-> <<Mean([k \in 1..Len(points) |-> points[k][1]]),
                            Mean([k \in 1..Len(points) |-> points[k][2]])>>]

\* lines 39-45: the exception that ends the construction, or "none"
ShapeRaises(object) ==
    IF Len(object.path) > 1 THEN "ValueError"
    ELSE IF Len(object.path) = 0 THEN "IndexError"
    ELSE "none"

\* Shape.__init__
Shape(object, reverse_path, include_handles) ==
    IF ShapeRaises(object) # "none"
    THEN [raised |-> ShapeRaises(object), shape |-> NoShape]
    ELSE [raised |-> "none",
          shape  |-> ShapeOf(object,
                       IF reverse_path
                       THEN Reverse(PathPoints(object.path[1], object.transform,
                                               include_handles))
                       ELSE PathPoints(object.path[1], object.transform,
                                       include_handles))]

\* Shape.make_transform; size2 is the square of size (size > 0) as a
\* fraction, matrix a 2 x 2 matrix sqrt(num / den) * m, translate a vector.
\* The code never passes a matrix together with a translation.
make_transform(size2, matrix, translate) ==
    CASE translate = <<0, 0>> ->
           TransformOf(FracMul(size2, <<matrix.num, matrix.den>>), matrix.m,
                       <<0, 0>>, <<0, 0>>)
      [] matrix.num = matrix.den ->
           TransformOf(size2, matrix.m, translate, <<0, 0>>)

NoMatrix == [m |-> Identity, num |-> 1, den |-> 1]

\* Shape.center: the centroid is the one computed at construction.  It is
\* only called on points that carry no factor.
center(self, return_inverse) ==
    CASE self.points.num = self.points.den ->
        [self |-> [self EXCEPT !.points.m =
                      [k \in 1..Len(self.points.m) |->
                         VSub(self.points.m[k], self.centroid)]],
         ret  |-> IF return_inverse
                  THEN make_transform(<<1, 1>>, NoMatrix, self.centroid)
                  ELSE make_transform(<<1, 1>>, NoMatrix,
                                      <<-self.centroid[1], -self.centroid[2]>>)]

\* Fault: a resize_to that returns the forward scaling whatever
\* return_inverse says.
ResizedForward(self, shape, return_inverse, scale2) ==
    [self  |-> [self EXCEPT !.points =
                  Canon(self.points.m,
                        FracMul(<<self.points.num, self.points.den>>, scale2)[1],
                        FracMul(<<self.points.num, self.points.den>>, scale2)[2])],
     shape |-> shape,
     ret   |-> make_transform(scale2, NoMatrix, <<0, 0>>)]

\* Fault: a resize_to that scales the Shape it is handed instead of self.
ResizedOther(self, shape, return_inverse, scale2) ==
    [self  |-> self,
     shape |-> [shape EXCEPT !.points =
                  Canon(shape.points.m,
                        FracMul(<<shape.points.num, shape.points.den>>,
                                <<scale2[2], scale2[1]>>)[1],
                        FracMul(<<shape.points.num, shape.points.den>>,
                                <<scale2[2], scale2[1]>>)[2])],
     ret   |-> IF return_inverse
               THEN make_transform(<<scale2[2], scale2[1]>>, NoMatrix, <<0, 0>>)
               ELSE make_transform(scale2, NoMatrix, <<0, 0>>)]

\* lines 87-91 of resize_to; scale2 is the square of scale_factor
Resized(self, shape, return_inverse, scale2) ==
    [self  |-> [self EXCEPT !.points =
                  Canon(self.points.m,
                        FracMul(<<self.points.num, self.points.den>>, scale2)[1],
                        FracMul(<<self.points.num, self.points.den>>, scale2)[2])],
     shape |-> shape,
     ret   |-> IF return_inverse
               THEN make_transform(<<scale2[2], scale2[1]>>, NoMatrix, <<0, 0>>)
               ELSE make_transform(scale2, NoMatrix, <<0, 0>>)]

\* Shape.resize_to.  The Frobenius norm of sqrt(num / den) * m is
\* sqrt(num * NormSq(m) / den).
resize_to(self, shape, return_inverse) ==
    IF NormSq(self.points.m) <= 0 \/ NormSq(shape.points.m) <= 0
    THEN [self |-> self, shape |-> shape,
          ret |-> make_transform(<<1, 1>>, NoMatrix, <<0, 0>>)]
    ELSE Resized(self, shape, return_inverse,
                 FracMul(Frac(shape.points.num * NormSq(shape.points.m),
                              shape.points.den),
                         Frac(self.points.den,
                              self.points.num * NormSq(self.points.m))))

\* u @ vT for the singular value decomposition u, s, vT of a 2 x 2 matrix M:
\* the orthogonal polar factor of M.  For det M > 0 it is the rotation
\* (M + cof M) / |.|, for det M < 0 the reflection (M - cof M) / |.|.  For a
\* singular M the decomposition is not unique and the library's choice of
\* the sign of the second singular vectors decides between the two: sgn.
Det(M) == M[1][1] * M[2][2] - M[1][2] * M[2][1]
PolarNumerator(M, s) ==
    IF s > 0
    THEN <<<<M[1][1] + M[2][2], M[1][2] - M[2][1]>>,
           <<M[2][1] - M[1][2], M[1][1] + M[2][2]>>>>
    ELSE <<<<M[1][1] - M[2][2], M[1][2] + M[2][1]>>,
           <<M[1][2] + M[2][1], M[2][2] - M[1][1]>>>>
Normalised(N) == Canon(N, 1, N[1][1] * N[1][1] + N[2][1] * N[2][1])
PolarFactor(M, sgn) ==
    IF M = <<<<0, 0>>, <<0, 0>>>>
    THEN [m |-> <<<<1, 0>>, <<0, sgn>>>>, num |-> 1, den |-> 1]
    ELSE Normalised(PolarNumerator(M, IF Det(M) > 0 THEN 1
                                      ELSE IF Det(M) < 0 THEN -1 ELSE sgn))

\* lines 101-104 of flip_and_rotate_to
Turned(self, shape, return_inverse, R) ==
    [self  |-> [self EXCEPT !.points =
                  Canon([k \in 1..Len(self.points.m) |->
                           MApply(R.m, self.points.m[k])],
                        FracMul(<<R.num, R.den>>,
                                <<self.points.num, self.points.den>>)[1],
                        FracMul(<<R.num, R.den>>,
                                <<self.points.num, self.points.den>>)[2])],
     shape |-> shape,
     ret   |-> IF return_inverse
               THEN make_transform(<<1, 1>>, [R EXCEPT !.m = MTranspose(R.m)],
                                   <<0, 0>>)
               ELSE make_transform(<<1, 1>>, R, <<0, 0>>)]

\* Shape.flip_and_rotate_to.  A positive common factor of the
\* cross-covariance does not change R, so the factors are left out of it.
\* R is finite for every finite input.
flip_and_rotate_to(self, shape, return_inverse, sgn) ==
    Turned(self, shape, return_inverse,
           PolarFactor(CrossCov(shape.points.m, self.points.m), sgn))

\* Shape.is_similar, on the entries A of sqrt(na / da) * A and B of
\* sqrt(nb / db) * B.  With diff = sqrt(fa) * A - sqrt(fb) * B:
\*   sum(diff**2) = fa |A|^2 + fb |B|^2 - 2 sqrt(fa fb) <A, B>
\*   each diff**2 = fa a^2   + fb b^2   - 2 sqrt(fa fb) a b
\* x**0.5 <= t iff t >= 0 and x <= t**2, and every inequality is multiplied
\* by da * db.
MeanWithin(A, na, da, B, nb, db, mean_tolerance) ==
    /\ mean_tolerance >= 0
    /\ SurdLe(na * db * SumSeq([k \in 1..Len(A) |-> A[k] * A[k]])
                + nb * da * SumSeq([k \in 1..Len(B) |-> B[k] * B[k]])
                - Len(A) * mean_tolerance * mean_tolerance * da * db,
              2 * SumSeq([k \in 1..Len(A) |-> A[k] * B[k]]),
              na * nb * da * db)

MaxWithin(A, na, da, B, nb, db, max_tolerance) ==
    /\ max_tolerance >= 0
    /\ \A k \in 1..Len(A) :
         SurdLe(na * db * A[k] * A[k] + nb * da * B[k] * B[k]
                  - max_tolerance * max_tolerance * da * db,
                2 * A[k] * B[k],
                na * nb * da * db)

is_similar(self, shape, mean_tolerance, max_tolerance) ==
    /\ MeanWithin(Entries(self.points.m), self.points.num, self.points.den,
                  Entries(shape.points.m), shape.points.num, shape.points.den,
                  mean_tolerance)
    /\ MaxWithin(Entries(self.points.m), self.points.num, self.points.den,
                 Entries(shape.points.m), shape.points.num, shape.points.den,
                 max_tolerance)

---------------------------------------------------------------------------
(* class FindShape *)

VARIABLES
    options,            \* self.options, as parsed by add_arguments
    svg,                \* self.svg.descendants(): the elements, in document order
    selection,          \* self.svg.selection: the ids selected
    initial_selection,  \* history: the selection the run was started with
    pc,                 \* where effect() stands
    raised,             \* the exception that ended the run, or "none"
    template,           \* self.template: the id of the template element, 0 for None
    shape,              \* self.shape: the template's Shape
    shape_at_setup,     \* history: self.shape as effect() left it before the scan
    template_transform, \* self.template_transform
    container,          \* self.container
    i,                  \* the position of the loop over the descendants
    transform,          \* the local variable transform of effect()
    copies,             \* the copies appended to the document, in order
    removed,            \* the ids of the elements removed from the document
    baked,              \* the containers whose transforms were baked
    log                 \* history: one entry per call of match_object

vars == <<options, svg, selection, initial_selection, pc, raised, template, shape,
          shape_at_setup, template_transform, container, i, transform, copies,
          removed, baked, log>>

None == [none |-> TRUE]

FINDABLE_OBJECTS == {"PathElement", "Rectangle", "Use", "Ellipse", "Circle"}

\* the element classes that are inkex.ShapeElement
ShapeElement == FINDABLE_OBJECTS \cup {"Group"}

is_findable_object(object) == object.kind \in FINDABLE_OBJECTS

copy_to_parent == options.replacewhere = "same parent as match"
do_clone == options.replacetype = "clone"
include_handles == options.findtype = "nodes and handles"

ElemId(k) == <<"element", k>>
CopyId(k) == <<"copy", k>>
ContainerId == <<"copies", 0>>

\* FindShape.match_object.  self is the FindShape, as far as match_object
\* reads it: [shape, template_transform, options, include_handles].  The
\* result holds
\*   ret:    the returned transform, or None
\*   raised: the exception that left it, or "none"
\*   target: the candidate's Shape as the call left it (NoShape: never built)
\*   shape:  self.shape as the call left it
\* and the steps below hand on the transform composed so far.

\* lines 187-195: the similarity test and the final transform
match_check(self, trans, aligned) ==
    IF ~is_similar(aligned.self, aligned.shape, self.options.avgerr, self.options.maxerr)
    THEN [ret |-> None, raised |-> "none",
          target |-> aligned.self, shape |-> aligned.shape]
    ELSE [ret |-> Compose(trans, self.template_transform), raised |-> "none",
          target |-> aligned.self, shape |-> aligned.shape]

\* lines 179-181: transform = transform @ flip_rotate
match_turned(self, trans, aligned) ==
    match_check(self, Compose(trans, aligned.ret), aligned)

\* lines 179-185: the alignment
match_align(self, trans, resized, sgn) ==
    IF self.options.findflip /\ self.options.findrotate
    THEN match_turned(self, trans,
                      flip_and_rotate_to(resized.self, resized.shape, TRUE, sgn))
    ELSE IF self.options.findflip \/ self.options.findrotate
    THEN [ret |-> None, raised |-> "NotImplementedError",
          target |-> resized.self, shape |-> resized.shape]
    ELSE match_check(self, trans, resized)

\* lines 175-177: transform = transform @ scale
match_scaled(self, trans, resized, sgn) ==
    match_align(self, Compose(trans, resized.ret), resized, sgn)

\* lines 166-177: the centering is undone last; the resizing
match_resize(self, centered, sgn) ==
    IF self.options.findrescale
    THEN [ret |-> None, raised |-> "NotImplementedError",
          target |-> centered.self, shape |-> self.shape]
    ELSE IF self.options.findresize
    THEN match_scaled(self, centered.ret,
                      resize_to(centered.self, self.shape, TRUE), sgn)
    ELSE match_align(self, centered.ret,
                     [self |-> centered.self, shape |-> self.shape], sgn)

\* Fault: a match_object that centers the candidate before it compares the
\* counts.
match_built_centering(self, built, sgn) ==
    IF built.raised # "none"
    THEN [ret |-> None, raised |-> "none", target |-> NoShape, shape |-> self.shape]
    ELSE IF Len(built.shape.points.m) # Len(self.shape.points.m)
    THEN [ret |-> None, raised |-> "none",
          target |-> center(built.shape, TRUE).self, shape |-> self.shape]
    ELSE match_resize(self, center(built.shape, TRUE), sgn)

\* Fault: a match_object that lets the exception of Shape() through.
match_built_raising(self, built, sgn) ==
    IF built.raised # "none"
    THEN [ret |-> None, raised |-> built.raised, target |-> NoShape,
          shape |-> self.shape]
    ELSE IF Len(built.shape.points.m) # Len(self.shape.points.m)
    THEN [ret |-> None, raised |-> "none", target |-> built.shape,
          shape |-> self.shape]
    ELSE match_resize(self, center(built.shape, TRUE), sgn)

\* lines 161-168: the count check, then the centering
match_built(self, built, sgn) ==
    IF built.raised # "none"
    THEN [ret |-> None, raised |-> "none", target |-> NoShape, shape |-> self.shape]
    ELSE IF Len(built.shape.points.m) # Len(self.shape.points.m)
    THEN [ret |-> None, raised |-> "none", target |-> built.shape,
          shape |-> self.shape]
    ELSE match_resize(self, center(built.shape, TRUE), sgn)

match_object(self, object, reverse_path, sgn) ==
    match_built(self, Shape(object, reverse_path, self.include_handles), sgn)

\* Fault: a get_container that selects the container's id before it looks
\* at replacewhere.
get_container_selecting(current, replacewhere, selected) ==
    IF current # "None"
    THEN [raised |-> "none", container |-> current, selection |-> selected]
    ELSE IF replacewhere = "new group (current layer)"
    THEN [raised |-> "none", container |-> "Group",
          selection |-> selected \cup {ContainerId}]
    ELSE IF replacewhere = "new layer"
    THEN [raised |-> "none", container |-> "Layer",
          selection |-> selected \cup {ContainerId}]
    ELSE [raised |-> "RuntimeError", container |-> current,
          selection |-> selected \cup {ContainerId}]

\* FindShape.get_container: the container, what it adds to the document and
\* to the selection, or the exception
get_container(current, replacewhere, selected) ==
    IF current # "None"
    THEN [raised |-> "none", container |-> current, selection |-> selected]
    ELSE IF replacewhere = "new group (current layer)"
    THEN [raised |-> "none", container |-> "Group",
          selection |-> selected \cup {ContainerId}]
    ELSE IF replacewhere = "new layer"
    THEN [raised |-> "none", container |-> "Layer",
          selection |-> selected \cup {ContainerId}]
    ELSE [raised |-> "RuntimeError", container |-> current, selection |-> selected]


\* the entry that a call of match_object leaves in the history
LogEntry(child, reverse_path, result) ==
    [child |-> child, reverse_path |-> reverse_path, ret |-> result.ret,
     raised |-> result.raised, target |-> result.target]

Abort(exception) ==
    /\ pc' = "error"
    /\ raised' = exception

\* lines 230-233: the template's Shape is centered and the transform cached
SetupCache(centered, render_transform) ==
    /\ shape' = centered.self
    /\ shape_at_setup' = centered.self
    /\ template_transform' = Compose(centered.ret, render_transform)
    /\ i' = 1
    /\ pc' = "loop"
    /\ raised' = "none"

\* lines 224-233: the template is elements[0]
SetupTemplate(chosen, built) ==
    /\ template' = chosen
    /\ IF ~is_findable_object(svg[chosen])
       THEN /\ Abort("ValueError")
            /\ UNCHANGED <<shape, shape_at_setup, template_transform, i>>
       ELSE IF built.raised # "none"
       THEN /\ Abort(built.raised)
            /\ UNCHANGED <<shape, shape_at_setup, template_transform, i>>
       ELSE SetupCache(center(built.shape, FALSE), built.shape.render_transform)

\* lines 219-222: elements is the selection filtered to ShapeElement
SetupSelection(elements) ==
    IF Cardinality(elements) # 1
    THEN /\ Abort("ValueError")
         /\ UNCHANGED <<template, shape, shape_at_setup, template_transform, i>>
    ELSE SetupTemplate(CHOOSE k \in elements : TRUE,
                       Shape(svg[CHOOSE k \in elements : TRUE], FALSE, include_handles))

\* effect(), lines 210-233: the template and its cached Shape and transform
Setup ==
    /\ pc = "start"
    /\ SetupSelection({k \in 1..Len(svg) :
                         ElemId(k) \in selection /\ svg[k].kind \in ShapeElement})
    /\ UNCHANGED <<options, svg, selection, initial_selection, container,
                   transform, copies, removed, baked, log>>

\* Fault: a loop that does not leave the template out.
SkippedUnfindable(k) == ~is_findable_object(svg[k])

\* line 238: don't match the template to itself
Skipped(k) == k = template \/ ~is_findable_object(svg[k])

\* lines 236-239: the template itself and the elements that cannot be found
Skip ==
    /\ pc = "loop"
    /\ i <= Len(svg)
    /\ Skipped(i)
    /\ i' = i + 1
    /\ UNCHANGED <<options, svg, selection, initial_selection, pc, raised,
                   template, shape, shape_at_setup, template_transform,
                   container, transform, copies, removed, baked, log>>

\* lines 242-247: what the loop does with the result of a call of match_object
Outcome(reverse_path, result, rejected_pc, rejected_i) ==
    /\ log' = Append(log, LogEntry(i, reverse_path, result))
    /\ shape' = result.shape
    /\ transform' = result.ret
    /\ IF result.raised # "none"
       THEN Abort(result.raised) /\ i' = i
       ELSE /\ raised' = raised
            /\ IF result.ret = None
               THEN pc' = rejected_pc /\ i' = rejected_i
               ELSE pc' = "place" /\ i' = i

Self == [shape |-> shape, template_transform |-> template_transform,
         options |-> options, include_handles |-> include_handles]

\* Fault: a loop that moves on when the forward pass returned None.
MatchForwardOnly ==
    /\ pc = "loop"
    /\ i <= Len(svg)
    /\ ~Skipped(i)
    /\ \E sgn \in {1, -1} :
         Outcome(FALSE, match_object(Self, svg[i], FALSE, sgn), "loop", i + 1)
    /\ UNCHANGED <<options, svg, selection, initial_selection, template,
                   shape_at_setup, template_transform, container, copies,
                   removed, baked>>

\* line 242: the forward pass
MatchForward ==
    /\ pc = "loop"
    /\ i <= Len(svg)
    /\ ~Skipped(i)
    /\ \E sgn \in {1, -1} :
         Outcome(FALSE, match_object(Self, svg[i], FALSE, sgn), "reverse", i)
    /\ UNCHANGED <<options, svg, selection, initial_selection, template,
                   shape_at_setup, template_transform, container, copies,
                   removed, baked>>

\* lines 243-247: the reversed pass, run when the forward pass returned None
MatchReversed ==
    /\ pc = "reverse"
    /\ \E sgn \in {1, -1} :
         Outcome(TRUE, match_object(Self, svg[i], TRUE, sgn), "loop", i + 1)
    /\ UNCHANGED <<options, svg, selection, initial_selection, template,
                   shape_at_setup, template_transform, container, copies,
                   removed, baked>>

\* lines 197-207 and 255: the copy of the template
CopyOf(parent, trans, clone) ==
    [id |-> CopyId(Len(copies) + 1), parent |-> parent, transform |-> trans,
     clone |-> clone, over |-> i]

\* lines 250-263, once the container is there
Placed(got, parent) ==
    /\ pc' = "loop"
    /\ raised' = raised
    /\ i' = i + 1
    /\ transform' = None
    /\ container' = IF options.replace THEN got.container ELSE container
    /\ copies' = IF options.replace
                 THEN Append(copies, CopyOf(parent, transform, do_clone))
                 ELSE copies
    /\ baked' = IF options.replace THEN baked \cup {parent} ELSE baked
    /\ removed' = IF options.delete THEN removed \cup {i} ELSE removed
    /\ selection' =
           (IF options.replace THEN got.selection ELSE selection)
           \cup (IF options.replace /\ copy_to_parent
                 THEN {CopyId(Len(copies) + 1)} ELSE {})
           \cup (IF options.delete THEN {} ELSE {ElemId(i)})

\* line 251: the container of the copy
PlaceIn(got) ==
    IF options.replace /\ got.raised # "none"
    THEN /\ Abort(got.raised)
         /\ selection' = got.selection
         /\ container' = got.container
         /\ UNCHANGED <<i, transform, copies, removed, baked>>
    ELSE Placed(got, IF copy_to_parent THEN svg[i].parent ELSE got.container)

\* lines 249-263: the copy placed on a match, and the match deleted or selected
Place ==
    /\ pc = "place"
    /\ PlaceIn(IF copy_to_parent
               THEN [raised |-> "none", container |-> container,
                     selection |-> selection]
               ELSE get_container(container, options.replacewhere, selection))
    /\ UNCHANGED <<options, svg, initial_selection, template, shape,
                   shape_at_setup, template_transform, log>>

\* the loop has run over every descendant: effect() returns
Finish ==
    /\ pc = "loop"
    /\ i > Len(svg)
    /\ pc' = "done"
    /\ UNCHANGED <<options, svg, selection, initial_selection, raised, template,
                   shape, shape_at_setup, template_transform, container, i,
                   transform, copies, removed, baked, log>>

Next == Setup \/ Skip \/ MatchForward \/ MatchReversed \/ Place \/ Finish

---------------------------------------------------------------------------
(* The documents and the options of the runs that are checked *)

Node(x, y) == <<<<x, y>>, <<x, y>>, <<x, y>>>>
Linear(a, b, c, d, e, f) ==
    TransformOf(<<1, 1>>, <<<<a, c>>, <<b, d>>>>, <<0, 0>>, <<e, f>>)
Element(kind, parent, path, trans) ==
    [id |-> 0, kind |-> kind, parent |-> parent, path |-> path, transform |-> trans]

MaxDoc == 3

\* a scalene triangle, an isosceles one with its apex in the middle of the
\* path, three points on a line, and three points that coincide
Triangle == <<Node(3, 2), Node(0, 1), Node(0, 0)>>
Isosceles == <<Node(-1, -1), Node(0, 2), Node(1, -1)>>
Collinear == <<Node(0, 0), Node(1, 0), Node(5, 0)>>
Coincident == <<Node(1, 1), Node(1, 1), Node(1, 1)>>

\* the triangle; a clone of it turned by 90 degrees, doubled, moved and traced the
\* other way round; a rectangle of another point count; a path of two
\* subpaths; a group
Catalog ==
    << Element("PathElement", "layer", <<Triangle>>, Linear(1, 0, 0, 1, 0, 0)),
       Element("Use", "group", <<Reverse(Triangle)>>, Linear(0, 2, -2, 0, 3, 1)),
       Element("Rectangle", "layer", <<<<Node(0, 0), Node(2, 0)>>>>,
               Linear(1, 0, 0, 1, 0, 0)),
       Element("PathElement", "layer", <<Triangle, Triangle>>, Linear(1, 0, 0, 1, 0, 0)),
       Element("Group", "layer", <<>>, Linear(1, 0, 0, 1, 0, 0)) >>

Documents(catalog, lengths) ==
    UNION {{[k \in 1..n |-> [catalog[c[k]] EXCEPT !.id = k]] :
              c \in [1..n -> 1..Len(catalog)]} : n \in lengths}

\* nothing selected, one element selected, or every element selected
Selections(doc) ==
    {{}} \cup {{ElemId(k)} : k \in 1..Len(doc)}
         \cup {{ElemId(k) : k \in 1..Len(doc)}}

\* two of the values that replacewhere offers, and one that it does not
Places == {"same parent as match", "new layer", "elsewhere"}

\* every combination of the find options; the options that place the copies
\* (read only after a match; replacewhere only when replace is set) are
\* varied under the find options that let the most candidates match
DriverOptions ==
    {o \in [findrotate : BOOLEAN, findflip : BOOLEAN, findresize : BOOLEAN,
            findrescale : BOOLEAN, findtype : {"nodes only"},
            maxerr : {0}, avgerr : {0},
            replace : BOOLEAN, delete : BOOLEAN, replacetype : {"clone"},
            replacewhere : Places] :
        /\ ~o.replace => o.replacewhere = "same parent as match"
        /\ ~(o.findresize /\ o.findrotate /\ o.findflip /\ ~o.findrescale)
             => ~o.replace /\ ~o.delete}

InitWith(optionSet, documents) ==
    /\ options \in optionSet
    /\ svg \in documents
    /\ selection \in Selections(svg)
    /\ initial_selection = selection
    /\ pc = "start"
    /\ raised = "none"
    /\ template = 0
    /\ shape = NoShape
    /\ shape_at_setup = NoShape
    /\ template_transform = None
    /\ container = "None"
    /\ i = 0
    /\ transform = None
    /\ copies = <<>>
    /\ removed = {}
    /\ baked = {}
    /\ log = <<>>

Init == InitWith(DriverOptions, Documents(Catalog, 1..MaxDoc))

Spec == Init /\ [][Next]_vars


---------------------------------------------------------------------------
(* The runs of one template against one candidate: the candidate is the    *)
(* image of a path under a similarity (a rotation or a reflection, scaled  *)
(* by sqrt(a^2 + b^2), then moved), traced forwards or backwards.  The     *)
(* similarity with a = b = 0 makes every point of the candidate coincide.  *)

MaxScale == 2
MaxTol == 2

Paths == {Triangle, Isosceles, Collinear, Coincident}

Similarity(a, b, mirror) ==
    IF mirror THEN Linear(a, b, b, -a, 5, -3) ELSE Linear(a, b, -b, a, 5, -3)

Templates ==
    {Element("PathElement", "layer", <<p>>, t) :
       p \in Paths, t \in {Linear(1, 0, 0, 1, 0, 0), Linear(0, 2, -2, 0, 3, 1)}}

Candidates ==
    {Element("PathElement", "layer", <<IF backwards THEN Reverse(p) ELSE p>>,
             Similarity(ab[1], ab[2], mirror)) :
       p \in Paths, backwards \in BOOLEAN, mirror \in BOOLEAN,
       ab \in (-MaxScale..MaxScale) \X (-MaxScale..MaxScale)}

MatchDocuments ==
    {<<[t EXCEPT !.id = 1], [c EXCEPT !.id = 2]>> : t \in Templates, c \in Candidates}

MatchOptions ==
    {o \in [findrotate : BOOLEAN, findflip : BOOLEAN, findresize : BOOLEAN,
            findrescale : {FALSE}, findtype : {"nodes only"},
            maxerr : {0, MaxTol}, avgerr : {0, MaxTol},
            replace : {TRUE}, delete : {FALSE}, replacetype : {"duplicate"},
            replacewhere : {"same parent as match"}] :
        o.findrotate = o.findflip}

InitMatch ==
    /\ InitWith(MatchOptions, MatchDocuments)
    /\ selection = {ElemId(1)}

SpecMatch == InitMatch /\ [][Next]_vars

---------------------------------------------------------------------------
(* The calls of Shape.center on one Shape: effect() and match_object call  *)
(* it once on every Shape they build; here it is called a second time.     *)

Build ==
    /\ pc = "start"
    /\ \E reverse_path \in BOOLEAN :
         /\ Shape(svg[1], reverse_path, include_handles).raised = "none"
         /\ shape' = Shape(svg[1], reverse_path, include_handles).shape
    /\ pc' = "built"
    /\ UNCHANGED <<options, svg, selection, initial_selection, raised, template,
                   shape_at_setup, template_transform, container, i, transform,
                   copies, removed, baked, log>>

\* the Shape and the Transform that a call of center leaves
Centered(called, then) ==
    /\ shape' = called.self
    /\ transform' = called.ret
    /\ pc' = then

CenterOnce ==
    /\ pc = "built"
    /\ \E return_inverse \in BOOLEAN :
         Centered(center(shape, return_inverse), "centered")
    /\ shape_at_setup' = shape'
    /\ UNCHANGED <<options, svg, selection, initial_selection, raised, template,
                   template_transform, container, i, copies, removed, baked, log>>

CenterAgain ==
    /\ pc = "centered"
    /\ \E return_inverse \in BOOLEAN :
         Centered(center(shape, return_inverse), "recentered")
    /\ UNCHANGED <<options, svg, selection, initial_selection, raised, template,
                   shape_at_setup, template_transform, container, i, copies,
                   removed, baked, log>>

NextCenter == Build \/ CenterOnce \/ CenterAgain

InitCenter ==
    /\ InitWith(MatchOptions, {<<[c EXCEPT !.id = 1]>> : c \in Templates \cup Candidates})
    /\ selection = {ElemId(1)}

SpecCenter == InitCenter /\ [][NextCenter]_vars

---------------------------------------------------------------------------
(* What is checked of the runs *)

\* the call returned None
Rejected(entry) == entry.ret = None /\ entry.raised = "none"

\* the template's Shape was built and centered: the scan has begun
ScanStarted == shape_at_setup # NoShape

\* Shape(object) raises
Fails(object) == ShapeRaises(object) # "none"

\* every point of the object is the same point
Degenerate(object) ==
    /\ ~Fails(object)
    /\ \A k \in 1..Len(object.path[1]) :
         PathPoints(object.path[1], object.transform, include_handles)[k]
           = PathPoints(object.path[1], object.transform, include_handles)[1]

\* the object has as many points as the template
SameCount(object) ==
    /\ ~Fails(object)
    /\ Len(PathPoints(object.path[1], object.transform, include_handles))
         = Len(shape_at_setup.points.m)

\* some call of match_object on child returned a transform
Accepted(child) == \E k \in 1..Len(log) : log[k].child = child /\ log[k].ret # None

\* child was handled as a match: removed, or added to the selection
Handled(child) == child \in removed \/ ElemId(child) \in selection

\* the unsupported combinations of the find options
Unsupported ==
    options.findrescale \/ (options.findrotate # options.findflip)

\* C1: with resizing, rotation and flip on and both tolerances 0, the
\* transform that match_object returns for an accepted candidate maps the
\* template's un-rendered point k onto the candidate's point k in the global
\* frame when the forward pass accepted, and onto its point n + 1 - k (n the
\* number of points, counted from 1) when the reversed pass accepted.
C1_TransformMapsTemplateOntoCandidate ==
    (/\ pc = "place"
     /\ options.findresize /\ options.findrotate /\ options.findflip
     /\ options.avgerr = 0 /\ options.maxerr = 0)
    => \A k \in 1..Len(shape_at_setup.points.m) :
         MapsTo(transform,
                PathPoints(svg[template].path[1], IdentityTransform,
                           include_handles)[k],
                PathPoints(svg[i].path[1], svg[i].transform, include_handles)
                  [IF log[Len(log)].reverse_path
                   THEN Len(shape_at_setup.points.m) + 1 - k ELSE k])

\* a candidate traced backwards, turned, and scaled by an irrational factor
\* is accepted on the reversed pass, for a template that is itself rendered
\* under a transform
C1_Witness ==
    /\ pc = "place"
    /\ options.findresize /\ options.findrotate /\ options.findflip
    /\ options.avgerr = 0 /\ options.maxerr = 0
    /\ log[Len(log)].reverse_path
    /\ transform.num # transform.den
    /\ svg[template].transform # Linear(1, 0, 0, 1, 0, 0)
    /\ ~Degenerate(svg[i])

\* C2: a candidate is evaluated in at most two passes, the forward one first;
\* the reversed pass runs exactly when the forward pass returned None, and
\* its result is that of the whole of match_object on a Shape extracted anew
\* with the points reversed; the candidate is handled as a match exactly when
\* one of the passes returned a transform, and the copy carries the transform
\* of the first pass that did.
C2_ForwardThenReversed ==
    /\ \A k \in 1..Len(log) :
         /\ log[k].reverse_path
              => /\ k > 1
                 /\ log[k - 1].child = log[k].child
                 /\ ~log[k - 1].reverse_path
                 /\ Rejected(log[k - 1])
         /\ ~log[k].reverse_path
              => \A j \in 1..(k - 1) : log[j].child < log[k].child
         /\ (~log[k].reverse_path /\ Rejected(log[k]))
              => IF k < Len(log)
                 THEN log[k + 1].child = log[k].child /\ log[k + 1].reverse_path
                 ELSE pc = "reverse" /\ i = log[k].child
         /\ (~log[k].reverse_path /\ ~Rejected(log[k]) /\ k < Len(log))
              => log[k + 1].child # log[k].child
    /\ (log # <<>> /\ log[Len(log)].reverse_path)
         => \E sgn \in {1, -1} :
              log[Len(log)] =
                LogEntry(log[Len(log)].child, TRUE,
                         match_built([Self EXCEPT !.shape = shape_at_setup],
                                     Shape(svg[log[Len(log)].child], TRUE,
                                           include_handles), sgn))
    /\ pc = "place"
         => /\ log # <<>>
            /\ log[Len(log)].child = i
            /\ log[Len(log)].ret = transform
            /\ transform # None
    /\ \A c \in 1..Len(copies) :
         \E k \in 1..Len(log) :
            /\ log[k].child = copies[c].over
            /\ log[k].ret = copies[c].transform
            /\ log[k].ret # None
    /\ ScanStarted
         => \A child \in 1..Len(svg) :
              child # template
                => (Handled(child) <=> (Accepted(child) /\ i > child))

\* a candidate that the forward pass rejected and the reversed pass accepted
\* has been copied over, after an earlier candidate that both passes rejected
C2_Witness ==
    /\ pc = "done"
    /\ \E k \in 3..Len(log) :
         /\ log[k].reverse_path /\ log[k].ret # None
         /\ log[k - 2].reverse_path /\ Rejected(log[k - 2])
         /\ \E c \in 1..Len(copies) :
              copies[c].over = log[k].child /\ copies[c].transform = log[k].ret

\* C3: a run with an unsupported combination of the find options raises the
\* error for it whatever the document holds: it never runs to its end.
C3_UnsupportedOptionsAlwaysFail ==
    (ScanStarted /\ Unsupported) => pc # "done"

\* C4: a candidate whose number of points differs from the template's is
\* rejected by the forward and by the reversed pass, under every combination
\* of the find options: the call returns None, raises nothing, and leaves the
\* candidate's Shape as it was extracted (not centered, resized or aligned).
C4_CountMismatchRejected ==
    \A k \in 1..Len(log) :
       (/\ ~Fails(svg[log[k].child])
        /\ ~SameCount(svg[log[k].child]))
       => /\ Rejected(log[k])
          /\ log[k].target
               = Shape(svg[log[k].child], log[k].reverse_path,
                       include_handles).shape

\* both passes have rejected a candidate of another count, under options
\* that raise for every candidate of the template's count
C4_Witness ==
    /\ Unsupported
    /\ options.findresize
    /\ \E k \in 2..Len(log) :
         /\ log[k].reverse_path
         /\ ~SameCount(svg[log[k].child])
         /\ ~Fails(svg[log[k].child])
         /\ log[k].target.centroid # <<0, 0>>
    /\ pc = "done"

\* C5: a candidate whose Shape cannot be extracted is rejected in both passes
\* without an exception leaving match_object, the run does not abort at it,
\* and the candidates after it are still evaluated; the same failure on the
\* template aborts the run before any candidate is evaluated.
C5_ExtractionFailureIsLocal ==
    /\ \A k \in 1..Len(log) :
         Fails(svg[log[k].child])
           => Rejected(log[k]) /\ log[k].target = NoShape
    /\ \A child \in 1..Len(svg) :
         (ScanStarted /\ i > child /\ ~Skipped(child) /\ Fails(svg[child]))
           => /\ \E k \in 1..Len(log) :
                   log[k].child = child /\ ~log[k].reverse_path
              /\ \E k \in 1..Len(log) :
                   log[k].child = child /\ log[k].reverse_path
    /\ (ScanStarted /\ pc = "error") => ~Fails(svg[i])
    /\ pc = "done"
         => \A child \in 1..Len(svg) :
              ~Skipped(child)
                => \E k \in 1..Len(log) :
                      log[k].child = child /\ ~log[k].reverse_path
    /\ (template # 0 /\ is_findable_object(svg[template]) /\ Fails(svg[template]))
         => pc = "error" /\ raised = "ValueError" /\ log = <<>>

\* a candidate of two subpaths was passed over and the candidate after it
\* was found and copied over
C5_Witness ==
    /\ pc = "done"
    /\ \E k \in 1..Len(log) :
         /\ Fails(svg[log[k].child])
         /\ log[k].reverse_path
         /\ \E c \in 1..Len(copies) : copies[c].over > log[k].child

\* the centered points of the template lie within the tolerances of the
\* origin: their root mean square is at most avgerr and every coordinate is
\* at most maxerr in absolute value
TemplateWithinTolerances ==
    /\ SumSeq([k \in 1..(2 * Len(shape_at_setup.points.m)) |->
                 Entries(shape_at_setup.points.m)[k]
                   * Entries(shape_at_setup.points.m)[k]])
         <= 2 * Len(shape_at_setup.points.m) * options.avgerr * options.avgerr
    /\ \A k \in 1..(2 * Len(shape_at_setup.points.m)) :
         Abs(Entries(shape_at_setup.points.m)[k]) <= options.maxerr

\* C6: a candidate whose points all coincide is never accepted by
\* match_object, in either pass, for every template of its count and every
\* pair of tolerances.
C6_DegenerateNeverAccepted ==
    \A k \in 1..Len(log) :
       (Degenerate(svg[log[k].child]) /\ SameCount(svg[log[k].child]))
         => log[k].ret = None

\* What match_object does with such a candidate: resize_to and
\* flip_and_rotate_to leave its points at the origin, and is_similar compares
\* them with the template's like any others.  The candidate is accepted
\* exactly when the template's centered points lie within the tolerances of
\* the origin; with both tolerances 0, when the template's points coincide
\* too.
DegenerateAcceptedWithinTolerances ==
    \A k \in 1..Len(log) :
       (Degenerate(svg[log[k].child]) /\ SameCount(svg[log[k].child]))
         => /\ log[k].ret # None <=> TemplateWithinTolerances
            /\ log[k].raised = "none"
            /\ (options.avgerr = 0 /\ options.maxerr = 0 /\ log[k].ret # None)
                 => Degenerate(svg[template])

\* C7: center is idempotent: a second call leaves the points as the first
\* call left them and returns the identity transform, whatever return_inverse.
C7_CenterIdempotent ==
    pc = "recentered"
      => /\ shape.points = shape_at_setup.points
         /\ transform = IdentityTransform

\* self, with the template's Shape and transform as effect() computes them
\* from the document: centered is the result of the call of center
TemplateAlone(centered) ==
    [shape |-> centered.self,
     template_transform |-> Compose(centered.ret, svg[template].transform),
     options |-> options,
     include_handles |-> include_handles]

\* the call that left the entry had the result that it has for alone
SameOutcome(entry, result) ==
    result.ret = entry.ret /\ result.raised = entry.raised

CacheIs(alone) ==
    /\ shape = shape_at_setup
    /\ shape = alone.shape
    /\ template_transform = alone.template_transform
    /\ log # <<>>
         => \E sgn \in {1, -1} :
              SameOutcome(log[Len(log)],
                          match_object(alone, svg[log[Len(log)].child],
                                       log[Len(log)].reverse_path, sgn))

\* C8: the evaluation of a candidate, accepted or rejected, leaves the
\* template's cached Shape and cached transform as effect() computed them,
\* and the outcome of a call of match_object is the one the candidate has
\* when it is evaluated alone against the template.
C8_TemplateCacheUnchanged ==
    ScanStarted
      => CacheIs(TemplateAlone(center(Shape(svg[template], FALSE,
                                            include_handles).shape, FALSE)))

\* with resizing and alignment on, a candidate was accepted and copied over
\* and the candidate after it, of the template's count, was evaluated
C8_Witness ==
    /\ options.findresize /\ options.findrotate /\ options.findflip
    /\ copies # <<>>
    /\ log # <<>>
    /\ log[Len(log)].child > copies[1].over
    /\ SameCount(svg[log[Len(log)].child])
    /\ log[Len(log)].ret # None

\* C9: the template is never handed to match_object, never copied over and
\* never removed, though the scan visits it like every other element.
C9_TemplateNeverCandidate ==
    ScanStarted
      => /\ \A k \in 1..Len(log) : log[k].child # template
         /\ \A c \in 1..Len(copies) : copies[c].over # template
         /\ template \notin removed
         /\ ElemId(template) \in selection

\* the run has ended with the matches deleted and copied over; the template
\* stands between two of them and is identical to both
C9_Witness ==
    /\ pc = "done"
    /\ options.delete /\ options.replace
    /\ Len(copies) = 2
    /\ copies[1].over < template /\ template < copies[2].over
    /\ svg[copies[1].over].path = svg[template].path
    /\ svg[copies[1].over].transform = svg[template].transform

\* C10: when a run aborts, it has changed neither the document (no copy, no
\* container, nothing baked, nothing removed) nor the selection.
C10_AbortLeavesDocumentUnchanged ==
    pc = "error"
      => /\ copies = <<>>
         /\ container = "None"
         /\ baked = {}
         /\ removed = {}
         /\ selection = initial_selection

\* the run aborted for the container of the first copy, after it had
\* rejected a candidate and accepted the next
C10_Witness ==
    /\ pc = "error"
    /\ raised = "RuntimeError"
    /\ options.delete
    /\ Len(log) >= 3
    /\ log[Len(log)].ret # None

=============================================================================
